---------------------------- MODULE Spec2Model ----------------------------
(***************************************************************************)
(* Model of the two icon scripts of the HealthAI repository:               *)
(*   src/create_icons_from_image.py  (the resizer)                         *)
(*   src/generate_app_icon.py        (the renderer)                        *)
(*                                                                         *)
(* Three specifications share the module:                                  *)
(*   Spec          one run of either script as a program (__main__),       *)
(*                 from the start of the process to its exit;              *)
(*   SpecIcon      create_base_icon applied to a requested size;           *)
(*   SpecGradient  the gradient loop of create_base_icon.                  *)
(*                                                                         *)
(* Modelling conventions.                                                  *)
(*  - Python's int(x) truncates toward zero (Trunc).  A float expression   *)
(*    n * 0.65 is evaluated as the rational n * 65 / 100.  For the glyph   *)
(*    geometry this agrees with IEEE-754 double evaluation for every size  *)
(*    1..276 and for 1024, which covers every size the model draws.        *)
(*  - In the gradient a channel value whose exact value is an integer      *)
(*    may be computed one ulp below it by the double arithmetic (for       *)
(*    ratio 2/3 the code computes r = 51, the exact value being 52), so    *)
(*    int() of such a value is a choice between the two neighbours.        *)
(*  - Image.save either writes the whole file or raises leaving the path   *)
(*    as it was.                                                           *)
(***************************************************************************)
EXTENDS Integers, Sequences, FiniteSets, TLC

VARIABLES
    script,           \* which program runs: "resizer" or "renderer"
    pc,               \* position of the run
    srcState,         \* SOURCE_IMAGE on disk: "absent", "unreadable", "ok"
    srcFile,          \* the image stored in SOURCE_IMAGE: [mode, pixel]
    source_img,       \* the resizer's source_img
    dirExists,        \* whether output_dir exists
    files,            \* content of each path of output_dir
    fs0,              \* the file system as the run found it: [dir, files]
    idx,              \* position of the for loop in ICON_SIZES.items()
    img,              \* the image of the current entry (icon / resized)
    generated_files,  \* the list generated_files
    result,           \* what the generation routine returned or raised
    stdout,           \* what the run printed
    exitCode,         \* exit status of the process, -1 while it runs
    gsize,            \* SpecIcon: the requested size
    gicon,            \* SpecIcon: what create_base_icon returned
    steps,            \* SpecGradient: number of circles
    max_radius,       \* SpecGradient: radius of the outermost circle
    gi,               \* SpecGradient: loop variable i
    ratio,            \* SpecGradient: <<i, steps>>, the ratio i / steps
    color,            \* SpecGradient: colour computed for that ratio
    radius            \* SpecGradient: radius computed for that ratio

runVars  == <<script, pc, srcState, srcFile, source_img, dirExists, files, fs0,
              idx, img, generated_files, result, stdout, exitCode>>
iconVars == <<gsize, gicon>>
gradVars == <<steps, max_radius, gi, ratio, color, radius>>
vars     == <<runVars, iconVars, gradVars>>

----------------------------------------------------------------------------
(* Bounds of the model *)

\* SpecIcon and SpecGradient draw the requested size from 1..MaxSize
\* (and from the size table).
MaxSize == 200
\* SpecGradient also evaluates the interpolation on the grids k/100, k/200,
\* ..., k/(100*GridMul), which hold the segment boundaries 0.33 and 0.66.
GridMul == 2

----------------------------------------------------------------------------
(* Arithmetic helpers *)

Min(a, b) == IF a < b THEN a ELSE b
Max(a, b) == IF a > b THEN a ELSE b
Abs(a)    == IF a < 0 THEN -a ELSE a

\* int(n / d) for d > 0: Python's int() truncates toward zero
Trunc(n, d) == IF n >= 0 THEN n \div d ELSE -((-n) \div d)

\* int(n * (num / den)), e.g. int(size * 0.65) is IntMul(size, 65, 100)
IntMul(n, num, den) == Trunc(n * num, den)

\* int(math.sqrt(n)) for 0 <= n <= hi * hi
ISqrt(n, hi) == CHOOSE r \in 0..hi : r * r <= n /\ n < (r + 1) * (r + 1)

\* Fixed point: a float of draw_heart is held as an integer number of
\* 1/Scale units; every product of draw_heart is exact in these units.
Scale == 100 * 100
FMul(x, num, den) == (x * num) \div den
FInt(x) == Trunc(x, Scale)

----------------------------------------------------------------------------
(* Strings: Python's `in` and str.replace *)

StrContains(s, sub) ==
    \E i \in 1..(Len(s) - Len(sub) + 1) : SubSeq(s, i, i + Len(sub) - 1) = sub

RECURSIVE StrReplace(_, _, _)
StrReplace(s, old, new) ==
    IF Len(s) < Len(old) THEN s
    ELSE IF SubSeq(s, 1, Len(old)) = old
         THEN new \o StrReplace(SubSeq(s, Len(old) + 1, Len(s)), old, new)
         ELSE SubSeq(s, 1, 1) \o StrReplace(SubSeq(s, 2, Len(s)), old, new)

----------------------------------------------------------------------------
(* The size tables, in the order of the dict literals *)

ICON_SIZES ==
    << [name |-> "iphone-60pt@2x", size |-> 120],
       [name |-> "iphone-60pt@3x", size |-> 180],
       [name |-> "iphone-29pt@2x", size |-> 58],
       [name |-> "iphone-29pt@3x", size |-> 87],
       [name |-> "iphone-40pt@2x", size |-> 80],
       [name |-> "iphone-40pt@3x", size |-> 120],
       [name |-> "iphone-20pt@2x", size |-> 40],
       [name |-> "iphone-20pt@3x", size |-> 60],
       [name |-> "ipad-76pt@1x", size |-> 76],
       [name |-> "ipad-76pt@2x", size |-> 152],
       [name |-> "ipad-83.5pt@2x", size |-> 167],
       [name |-> "ipad-29pt@1x", size |-> 29],
       [name |-> "ipad-29pt@2x", size |-> 58],
       [name |-> "ipad-40pt@1x", size |-> 40],
       [name |-> "ipad-40pt@2x", size |-> 80],
       [name |-> "ipad-20pt@1x", size |-> 20],
       [name |-> "ipad-20pt@2x", size |-> 40],
       [name |-> "ios-marketing-1024pt@1x", size |-> 1024] >>

\* ICON_SIZES of create_icons_from_image.py
RESIZER_ICON_SIZES ==
    << [name |-> "iphone-60pt@2x", size |-> 120],
       [name |-> "iphone-60pt@3x", size |-> 180],
       [name |-> "iphone-29pt@2x", size |-> 58],
       [name |-> "iphone-29pt@3x", size |-> 87],
       [name |-> "iphone-40pt@2x", size |-> 80],
       [name |-> "iphone-40pt@3x", size |-> 120],
       [name |-> "iphone-20pt@2x", size |-> 40],
       [name |-> "iphone-20pt@3x", size |-> 60],
       [name |-> "ipad-76pt@1x", size |-> 76],
       [name |-> "ipad-76pt@2x", size |-> 152],
       [name |-> "ipad-83.5pt@2x", size |-> 167],
       [name |-> "ipad-29pt@1x", size |-> 29],
       [name |-> "ipad-29pt@2x", size |-> 58],
       [name |-> "ipad-40pt@1x", size |-> 40],
       [name |-> "ipad-40pt@2x", size |-> 80],
       [name |-> "ipad-20pt@1x", size |-> 20],
       [name |-> "ipad-20pt@2x", size |-> 40],
       [name |-> "ios-marketing-1024pt@1x", size |-> 1024] >>

Table(s) == IF s = "renderer" THEN ICON_SIZES ELSE RESIZER_ICON_SIZES

TableSizes == {ICON_SIZES[k].size : k \in 1..Len(ICON_SIZES)}

----------------------------------------------------------------------------
(* Filename derivation *)

\* a renderer that keeps the platform prefix of the tablet labels
RendererFilename_KeepIpad(icon_name) ==
    IF StrContains(icon_name, "iphone")
    THEN "icon-" \o StrReplace(icon_name, "iphone-", "") \o ".png"
    ELSE IF StrContains(icon_name, "ios-marketing")
         THEN "icon-1024x1024.png"
         ELSE "icon-" \o icon_name \o ".png"

\* generate_icons, "Determine filename and platform/idiom from icon name"
RendererFilename(icon_name) ==
    IF StrContains(icon_name, "iphone")
    THEN "icon-" \o StrReplace(icon_name, "iphone-", "") \o ".png"
    ELSE IF StrContains(icon_name, "ipad")
         THEN "icon-" \o StrReplace(icon_name, "ipad-", "") \o ".png"
         ELSE IF StrContains(icon_name, "ios-marketing")
              THEN "icon-1024x1024.png"
              ELSE "icon-" \o icon_name \o ".png"

\* a resizer that removes "iphone" and leaves the dash behind
ResizerFilename_NoDash(icon_name) ==
    IF StrContains(icon_name, "iphone")
    THEN "icon-" \o StrReplace(icon_name, "iphone", "") \o ".png"
    ELSE IF StrContains(icon_name, "ipad")
         THEN "icon-" \o StrReplace(icon_name, "ipad-", "") \o ".png"
         ELSE IF StrContains(icon_name, "ios-marketing")
              THEN "icon-1024x1024.png"
              ELSE "icon-" \o icon_name \o ".png"

\* create_icons_from_image, "Determine filename"
ResizerFilename(icon_name) ==
    IF StrContains(icon_name, "iphone")
    THEN "icon-" \o StrReplace(icon_name, "iphone-", "") \o ".png"
    ELSE IF StrContains(icon_name, "ipad")
         THEN "icon-" \o StrReplace(icon_name, "ipad-", "") \o ".png"
         ELSE IF StrContains(icon_name, "ios-marketing")
              THEN "icon-1024x1024.png"
              ELSE "icon-" \o icon_name \o ".png"

Filename(s, icon_name) ==
    IF s = "renderer" THEN RendererFilename(icon_name)
    ELSE ResizerFilename(icon_name)

----------------------------------------------------------------------------
(* draw_heart: the coordinates handed to draw.ellipse and draw.polygon *)

draw_heart(center_x, center_y, size) ==
    LET heart_width    == FMul(size * Scale, 65, 100)
        heart_height   == FMul(size * Scale, 6, 10)
        x              == center_x * Scale
        y              == center_y * Scale
        left_circle_x  == x - FMul(heart_width, 22, 100)
        left_circle_y  == y - FMul(heart_height, 15, 100)
        left_radius    == FMul(heart_width, 26, 100)
        right_circle_x == x + FMul(heart_width, 22, 100)
        right_circle_y == y - FMul(heart_height, 15, 100)
        right_radius   == FMul(heart_width, 26, 100)
    IN  [ left_bbox  |-> << FInt(left_circle_x - left_radius),
                            FInt(left_circle_y - left_radius),
                            FInt(left_circle_x + left_radius),
                            FInt(left_circle_y + left_radius) >>,
          right_bbox |-> << FInt(right_circle_x - right_radius),
                            FInt(right_circle_y - right_radius),
                            FInt(right_circle_x + right_radius),
                            FInt(right_circle_y + right_radius) >>,
          triangle_points |->
              << << FInt(left_circle_x - FMul(left_radius, 3, 10)),
                    FInt(left_circle_y + FMul(left_radius, 4, 10)) >>,
                 << FInt(right_circle_x + FMul(right_radius, 3, 10)),
                    FInt(right_circle_y + FMul(right_radius, 4, 10)) >>,
                 << FInt(x), FInt(y + FMul(heart_height, 55, 100)) >> >> ]

----------------------------------------------------------------------------
(* create_base_icon: the canvas and the glyph layout *)

\* a canvas one pixel taller than wide
IconCanvas_Tall(size) == [mode |-> "RGB", width |-> size, height |-> size + 1]

\* Image.new('RGB', (size, size), color='#1A4D99')
IconCanvas(size) == [mode |-> "RGB", width |-> size, height |-> size]

\* the group starts a whole symbol width left of the centre
group_start_x_NoHalf(center_x, total_symbol_width) ==
    center_x - total_symbol_width

\* group_start_x = center_x - total_symbol_width // 2
group_start_x(center_x, total_symbol_width) ==
    center_x - total_symbol_width \div 2

\* plus_thickness = max(3, int(plus_size * 0.25))
plus_thickness(plus_size) == Max(3, IntMul(plus_size, 25, 100))

\* plus_length = int(plus_size * 0.6)
plus_length(plus_size) == IntMul(plus_size, 6, 10)

\* max_radius = int(math.sqrt(center_x**2 + center_y**2))
MaxRadius(size) ==
    LET center_x == size \div 2
        center_y == size \div 2
    IN  ISqrt(center_x * center_x + center_y * center_y, size)

\* steps = min(60, max_radius // 2)
GradientSteps(size) == Min(60, MaxRadius(size) \div 2)

create_base_icon(size) ==
    LET center_x == size \div 2
        center_y == size \div 2
        total_symbol_width == IntMul(size, 65, 100)
        heart_size == IntMul(total_symbol_width, 55, 100)
        plus_size  == IntMul(total_symbol_width, 35, 100)
        spacing    == IntMul(total_symbol_width, 10, 100)
        gsx            == group_start_x(center_x, total_symbol_width)
        heart_center_x == gsx + heart_size \div 2
        plus_center_x  == gsx + heart_size + spacing + plus_size \div 2
        circle_radius  == IntMul(heart_size, 5, 10)
        heart_draw_size == IntMul(circle_radius, 125, 100)
        thickness == plus_thickness(plus_size)
        length    == plus_length(plus_size)
    IN  [ canvas |-> IconCanvas(size),
          steps  |-> GradientSteps(size),
          circle_radius |-> circle_radius,
          circle_bbox |-> << heart_center_x - circle_radius,
                             center_y - circle_radius,
                             heart_center_x + circle_radius,
                             center_y + circle_radius >>,
          heart |-> draw_heart(heart_center_x, center_y, heart_draw_size),
          plus_thickness |-> thickness,
          plus_length    |-> length,
          plus_radius    |-> thickness \div 3,
          plus_v |-> << plus_center_x - thickness \div 2,
                        center_y - length \div 2,
                        plus_center_x + thickness \div 2,
                        center_y + length \div 2 >>,
          plus_h |-> << plus_center_x - length \div 2,
                        center_y - thickness \div 2,
                        plus_center_x + length \div 2,
                        center_y + thickness \div 2 >> ]

\* every number create_base_icon hands to a drawing call for a glyph
GlyphNumbers(icon) ==
    {icon.circle_radius, icon.plus_thickness}
    \cup {icon.circle_bbox[k] : k \in 1..4}
    \cup {icon.heart.left_bbox[k] : k \in 1..4}
    \cup {icon.heart.right_bbox[k] : k \in 1..4}
    \cup {icon.heart.triangle_points[p][k] : p \in 1..3, k \in 1..2}
    \cup {icon.plus_v[k] : k \in 1..4}
    \cup {icon.plus_h[k] : k \in 1..4}

----------------------------------------------------------------------------
(* create_base_icon: the colour of one circle of the radial gradient *)

\* The values int(base + delta * t) can take for t = tNum / tDen >= 0.
\* t = 0 is computed exactly.  An exact integer value q may be computed
\* just beside q, where int() gives q or its neighbour nearer to zero.
ChannelOutcomes(base, delta, tNum, tDen) ==
    LET n == base * tDen + delta * tNum
        q == n \div tDen
    IN  IF tNum = 0 THEN {base}
        ELSE IF n % tDen # 0 THEN {Trunc(n, tDen)}
        ELSE IF q > 0 THEN {q - 1, q}
        ELSE IF q < 0 THEN {q, q + 1}
        ELSE {q}

\* max(0, min(255, c))
Clamp(c) == Max(0, Min(255, c))

Colors(rs, gs, bs) == {<<Clamp(r), Clamp(g), Clamp(b)>> : r \in rs, g \in gs, b \in bs}

\* "First to second color": ratio / 0.33 is (100 * i) / (33 * steps)
Segment1(i, n) ==
    Colors(ChannelOutcomes(26, 0 - 26, 100 * i, 33 * n),
           ChannelOutcomes(77, 128 - 77, 100 * i, 33 * n),
           ChannelOutcomes(153, 204 - 153, 100 * i, 33 * n))

\* a second segment that starts again from the first colour stop
Segment2_FromFirstStop(i, n) ==
    Colors(ChannelOutcomes(26, 51 - 26, 100 * i - 33 * n, 33 * n),
           ChannelOutcomes(77, 179 - 77, 100 * i - 33 * n, 33 * n),
           ChannelOutcomes(153, 230 - 153, 100 * i - 33 * n, 33 * n))

\* "Second to third color": local_ratio = (ratio - 0.33) / 0.33
Segment2(i, n) ==
    Colors(ChannelOutcomes(0, 51 - 0, 100 * i - 33 * n, 33 * n),
           ChannelOutcomes(128, 179 - 128, 100 * i - 33 * n, 33 * n),
           ChannelOutcomes(204, 230 - 204, 100 * i - 33 * n, 33 * n))

\* "Third to fourth color": local_ratio = (ratio - 0.66) / 0.34
Segment3(i, n) ==
    Colors(ChannelOutcomes(51, 102 - 51, 100 * i - 66 * n, 34 * n),
           ChannelOutcomes(179, 204 - 179, 100 * i - 66 * n, 34 * n),
           ChannelOutcomes(230, 255 - 230, 100 * i - 66 * n, 34 * n))

\* the colours the loop body can compute for ratio = i / n
GradientColors(i, n) ==
    IF 100 * i < 33 * n THEN Segment1(i, n)
    ELSE IF 100 * i < 66 * n THEN Segment2(i, n)
    ELSE Segment3(i, n)

\* radius = int((steps - i) * max_radius / steps)
GradientRadius(i, n, maxr) == Trunc((n - i) * maxr, n)

----------------------------------------------------------------------------
(* The resizer's colour normalisation, on one pixel of the source image *)

NoImage == [mode |-> "none", pixel |-> <<>>]
White   == <<255, 255, 255>>

\* the images SOURCE_IMAGE can hold: one pixel of each mode
SourceImages ==
    {[mode |-> "RGB", pixel |-> p] : p \in {<<26, 77, 153>>, <<255, 255, 255>>}}
    \cup {[mode |-> "RGBA", pixel |-> <<c, c, 153, a>>] : c \in {0, 255}, a \in {0, 128, 255}}
    \cup {[mode |-> "LA", pixel |-> <<l, a>>] : l \in {0, 255}, a \in {0, 128, 255}}
    \cup {[mode |-> "L", pixel |-> <<l>>] : l \in {0, 255}}

\* the modes that carry an alpha channel, and the alpha of a pixel
AlphaModes == {"RGBA", "LA"}
Alpha(im) == im.pixel[Len(im.pixel)]

\* Pillow's blend of two 8-bit values under an 8-bit mask
Div255(a) == LET tmp == a + 128 IN ((tmp \div 256) + tmp) \div 256
Blend8(mask, in1, in2) == Div255(in1 * (255 - mask) + in2 * mask)

\* background.paste(source_img, mask=source_img.split()[3])
PasteWithMask(background, im) ==
    LET mask == im.pixel[4]
    IN  [mode |-> "RGB",
         pixel |-> << Blend8(mask, background[1], im.pixel[1]),
                      Blend8(mask, background[2], im.pixel[2]),
                      Blend8(mask, background[3], im.pixel[3]) >>]

\* background.paste(source_img) of an LA image: the bands are copied as
\* stored, (L, L, L, A) over (R, G, B, pad), and no mask is applied
PasteNoMask(background, im) ==
    [mode |-> "RGB", pixel |-> <<im.pixel[1], im.pixel[1], im.pixel[1]>>]

\* source_img.convert('RGB') of a mode without alpha
ConvertRGB(im) ==
    [mode |-> "RGB", pixel |-> <<im.pixel[1], im.pixel[1], im.pixel[1]>>]

\* "Convert to RGB if needed (remove alpha channel for app icons)"
NormalizeSource(im) ==
    IF im.mode # "RGB"
    THEN IF im.mode \in {"RGBA", "LA"}
         THEN IF im.mode = "RGBA"
              THEN PasteWithMask(White, im)
              ELSE PasteNoMask(White, im)
         ELSE ConvertRGB(im)
    ELSE im

\* source_img.resize((size, size), Image.Resampling.LANCZOS)
Resize(im, size) == [mode |-> im.mode, width |-> size, height |-> size]

----------------------------------------------------------------------------
(* The output directory *)

Paths ==
    {RendererFilename(ICON_SIZES[k].name) : k \in 1..Len(ICON_SIZES)}
    \cup {ResizerFilename(RESIZER_ICON_SIZES[k].name) : k \in 1..Len(RESIZER_ICON_SIZES)}
    \cup {"Contents.json"}

NoFile == [kind |-> "none", mode |-> "", width |-> 0, height |-> 0, writer |-> 0]

\* the file image.save(filepath, 'PNG', optimize=True) writes for entry k
Png(image, k) ==
    [kind |-> "png", mode |-> image.mode, width |-> image.width,
     height |-> image.height, writer |-> k]

EmptyDir == [p \in Paths |-> NoFile]

\* a directory left by an earlier generation: one icon and the catalogue
UsedDir ==
    [p \in Paths |->
        IF p = "icon-29pt@2x.png"
        THEN [kind |-> "png", mode |-> "RGBA", width |-> 58, height |-> 58, writer |-> 0]
        ELSE IF p = "Contents.json"
             THEN [kind |-> "json", mode |-> "", width |-> 0, height |-> 0, writer |-> 0]
             ELSE NoFile]

\* the states the run can find the output directory in
InitialFileSystems ==
    { [dir |-> FALSE, files |-> EmptyDir],
      [dir |-> TRUE,  files |-> EmptyDir],
      [dir |-> TRUE,  files |-> UsedDir] }

NoImg == [mode |-> "none", width |-> 0, height |-> 0]

----------------------------------------------------------------------------
(* One run of a script as a program *)

RunInit ==
    /\ script \in {"resizer", "renderer"}
    /\ pc = "start"
    /\ \/ /\ script = "resizer"
          /\ \/ srcState \in {"absent", "unreadable"} /\ srcFile = NoImage
             \/ srcState = "ok" /\ srcFile \in SourceImages
       \/ /\ script = "renderer"
          /\ srcState = "ok"
          /\ srcFile = NoImage
    /\ source_img = NoImage
    /\ fs0 \in InitialFileSystems
    /\ dirExists = fs0.dir
    /\ files = fs0.files
    /\ idx = 0
    /\ img = NoImg
    /\ generated_files = <<>>
    /\ result = "none"
    /\ stdout = <<>>
    /\ exitCode = -1

IconInit == gsize = 0 /\ gicon = {}

GradInit ==
    /\ steps = 0
    /\ max_radius = 0
    /\ gi = 0
    /\ ratio = <<0, 1>>
    /\ color = <<26, 77, 153>>
    /\ radius = 0

\* the except clause of create_icons_from_image: report, trace, return False
ResizerExcept(out) ==
    /\ stdout' = out \o <<"Error processing image", "traceback">>
    /\ result' = "False"
    /\ pc' = "main"

\* if not os.path.exists(SOURCE_IMAGE): ... return False
Resizer_CheckSource ==
    /\ script = "resizer" /\ pc = "start"
    /\ IF srcState = "absent"
       THEN /\ stdout' = Append(stdout, "Error: Source image not found")
            /\ result' = "False"
            /\ pc' = "main"
       ELSE /\ pc' = "open"
            /\ UNCHANGED <<stdout, result>>
    /\ UNCHANGED <<script, srcState, srcFile, source_img, dirExists, files, fs0,
                   idx, img, generated_files, exitCode>>
    /\ UNCHANGED <<iconVars, gradVars>>

\* a resizer that creates the output directory before it looks at the source
Resizer_Open_DirFirst ==
    /\ script = "resizer" /\ pc = "open"
    /\ dirExists' = TRUE
    /\ IF srcState = "unreadable"
       THEN ResizerExcept(stdout) /\ UNCHANGED source_img
       ELSE /\ source_img' = srcFile
            /\ stdout' = Append(stdout, "Loaded source image")
            /\ pc' = "convert"
            /\ UNCHANGED result
    /\ UNCHANGED <<script, srcState, srcFile, files, fs0,
                   idx, img, generated_files, exitCode>>
    /\ UNCHANGED <<iconVars, gradVars>>

\* source_img = Image.open(SOURCE_IMAGE), which raises on an unreadable file
Resizer_Open ==
    /\ script = "resizer" /\ pc = "open"
    /\ IF srcState = "unreadable"
       THEN ResizerExcept(stdout) /\ UNCHANGED source_img
       ELSE /\ source_img' = srcFile
            /\ stdout' = Append(stdout, "Loaded source image")
            /\ pc' = "convert"
            /\ UNCHANGED result
    /\ UNCHANGED <<script, srcState, srcFile, dirExists, files, fs0,
                   idx, img, generated_files, exitCode>>
    /\ UNCHANGED <<iconVars, gradVars>>

\* if source_img.mode != 'RGB': ... (the colour normalisation)
Resizer_Convert ==
    /\ script = "resizer" /\ pc = "convert"
    /\ source_img' = NormalizeSource(source_img)
    /\ stdout' = IF source_img.mode # "RGB"
                 THEN Append(stdout, "Converting to RGB") ELSE stdout
    /\ pc' = "makedirs"
    /\ UNCHANGED <<script, srcState, srcFile, dirExists, files, fs0,
                   idx, img, generated_files, result, exitCode>>
    /\ UNCHANGED <<iconVars, gradVars>>

\* os.makedirs(output_dir, exist_ok=True); generated_files = []
MakeDirs ==
    /\ pc = (IF script = "resizer" THEN "makedirs" ELSE "start")
    /\ dirExists' = TRUE
    /\ generated_files' = <<>>
    /\ stdout' = Append(stdout, "Generating app icons")
    /\ idx' = 1
    /\ pc' = "loop"
    /\ UNCHANGED <<script, srcState, srcFile, source_img, files, fs0,
                   img, result, exitCode>>
    /\ UNCHANGED <<iconVars, gradVars>>

\* the image of entry k: create_base_icon(size) / source_img.resize(...)
EntryImage(k) ==
    IF script = "renderer"
    THEN create_base_icon(Table(script)[k].size).canvas
    ELSE Resize(source_img, Table(script)[k].size)

\* what an exception raised inside the loop does: the resizer's except
\* clause returns False, the renderer's generate_icons lets it propagate
Raise(out) ==
    IF script = "resizer"
    THEN ResizerExcept(out)
    ELSE /\ result' = "raised"
         /\ pc' = "main"
         /\ stdout' = out

\* first half of a pass of "for icon_name, size in ICON_SIZES.items()":
\* print the entry and make its image
Generate ==
    /\ pc = "loop" /\ idx <= Len(Table(script))
    /\ img' = EntryImage(idx)
    /\ stdout' = Append(stdout, "Generating " \o Table(script)[idx].name)
    /\ pc' = "save"
    /\ UNCHANGED <<script, srcState, srcFile, source_img, dirExists, files, fs0,
                   idx, generated_files, result, exitCode>>
    /\ UNCHANGED <<iconVars, gradVars>>

\* create_base_icon(size) / source_img.resize(...) raises
GenerateRaises ==
    /\ pc = "loop" /\ idx <= Len(Table(script))
    /\ Raise(Append(stdout, "Generating " \o Table(script)[idx].name))
    /\ UNCHANGED <<script, srcState, srcFile, source_img, dirExists, files, fs0,
                   idx, img, generated_files, exitCode>>
    /\ UNCHANGED <<iconVars, gradVars>>

\* second half of the pass: derive the filename, save, record, print
Save ==
    /\ pc = "save"
    /\ LET icon_name == Table(script)[idx].name
           size      == Table(script)[idx].size
           filename  == Filename(script, icon_name)
       IN  /\ files' = [files EXCEPT ![filename] = Png(img, idx)]
           /\ generated_files' = Append(generated_files, <<icon_name, filename, size>>)
           /\ stdout' = Append(stdout, "Created " \o filename)
    /\ idx' = idx + 1
    /\ pc' = "loop"
    /\ UNCHANGED <<script, srcState, srcFile, source_img, dirExists, fs0,
                   img, result, exitCode>>
    /\ UNCHANGED <<iconVars, gradVars>>

\* a failing save that first removes what the run has written so far
SaveRaises_Rollback ==
    /\ pc = "save"
    /\ files' = fs0.files
    /\ Raise(stdout)
    /\ UNCHANGED <<script, srcState, srcFile, source_img, dirExists, fs0,
                   idx, img, generated_files, exitCode>>
    /\ UNCHANGED <<iconVars, gradVars>>

\* image.save(filepath, 'PNG', optimize=True) raises
SaveRaises ==
    /\ pc = "save"
    /\ Raise(stdout)
    /\ UNCHANGED <<script, srcState, srcFile, source_img, dirExists, files, fs0,
                   idx, img, generated_files, exitCode>>
    /\ UNCHANGED <<iconVars, gradVars>>

\* after the loop: print the count; return True / return generated_files
Finish ==
    /\ pc = "loop" /\ idx > Len(Table(script))
    /\ stdout' = Append(stdout, "Generated icon files")
    /\ result' = IF script = "resizer" THEN "True" ELSE "list"
    /\ pc' = "main"
    /\ UNCHANGED <<script, srcState, srcFile, source_img, dirExists, files, fs0,
                   idx, img, generated_files, exitCode>>
    /\ UNCHANGED <<iconVars, gradVars>>

\* __main__ of create_icons_from_image.py, after the call; the script ends
Resizer_Main ==
    /\ script = "resizer" /\ pc = "main"
    /\ stdout' = IF result = "True"
                 THEN stdout \o <<"App icon generation complete!", "Next steps">>
                 ELSE Append(stdout, "Failed to generate icons")
    /\ exitCode' = 0
    /\ pc' = "exited"
    /\ UNCHANGED <<script, srcState, srcFile, source_img, dirExists, files, fs0,
                   idx, img, generated_files, result>>
    /\ UNCHANGED <<iconVars, gradVars>>

\* __main__ of generate_app_icon.py, after the call; the script ends
Renderer_Main ==
    /\ script = "renderer" /\ pc = "main"
    /\ stdout' = IF result = "raised"
                 THEN stdout \o <<"Error generating icons", "traceback">>
                 ELSE stdout \o <<"App icon generation complete!", "Note">>
    /\ exitCode' = 0
    /\ pc' = "exited"
    /\ UNCHANGED <<script, srcState, srcFile, source_img, dirExists, files, fs0,
                   idx, img, generated_files, result>>
    /\ UNCHANGED <<iconVars, gradVars>>

Init == RunInit /\ IconInit /\ GradInit

Next ==
    \/ Resizer_CheckSource
    \/ Resizer_Open
    \/ Resizer_Convert
    \/ MakeDirs
    \/ Generate
    \/ GenerateRaises
    \/ Save
    \/ SaveRaises
    \/ Finish
    \/ Resizer_Main
    \/ Renderer_Main

Spec == Init /\ [][Next]_vars

----------------------------------------------------------------------------
(* create_base_icon applied to a requested size *)

\* no script runs
RunIdle ==
    /\ script = "renderer"
    /\ pc = "idle"
    /\ srcState = "ok"
    /\ srcFile = NoImage
    /\ source_img = NoImage
    /\ fs0 = [dir |-> FALSE, files |-> EmptyDir]
    /\ dirExists = FALSE
    /\ files = EmptyDir
    /\ idx = 0
    /\ img = NoImg
    /\ generated_files = <<>>
    /\ result = "none"
    /\ stdout = <<>>
    /\ exitCode = -1

RequestedSizes == (1..MaxSize) \cup TableSizes

InitIcon ==
    /\ RunIdle
    /\ GradInit
    /\ gsize \in RequestedSizes
    /\ gicon = {}

\* icon = create_base_icon(size)
CreateBaseIcon ==
    /\ gsize > 0 /\ gicon = {}
    /\ gicon' = {create_base_icon(gsize)}
    /\ UNCHANGED <<gsize, runVars, gradVars>>

NextIcon == CreateBaseIcon

SpecIcon == InitIcon /\ [][NextIcon]_vars

----------------------------------------------------------------------------
(* The gradient loop of create_base_icon *)

\* steps and max_radius of the requested sizes, and the grids k / (100 * m)
\* on which the segment boundaries 0.33 and 0.66 are ratios
GradientInputs ==
    {[steps |-> GradientSteps(s), max_radius |-> MaxRadius(s)] : s \in RequestedSizes}
    \cup {[steps |-> 100 * m, max_radius |-> 200 * m] : m \in 1..GridMul}

InitGradient ==
    /\ RunIdle
    /\ IconInit
    /\ \E g \in GradientInputs : steps = g.steps /\ max_radius = g.max_radius
    /\ gi = 0
    /\ ratio = <<0, 1>>
    /\ color = <<26, 77, 153>>
    /\ radius = 0

\* one pass of "for i in range(steps)": ratio, colour and radius of circle i
GradientStep ==
    /\ gi < steps
    /\ ratio' = <<gi, steps>>
    /\ color' \in GradientColors(gi, steps)
    /\ radius' = GradientRadius(gi, steps, max_radius)
    /\ gi' = gi + 1
    /\ UNCHANGED <<steps, max_radius, runVars, iconVars>>

NextGradient == GradientStep

SpecGradient == InitGradient /\ [][NextGradient]_vars

----------------------------------------------------------------------------
(* Vocabulary of the properties *)

\* the generation routine returned normally / reported or raised a failure
Succeeded == result \in {"True", "list"}
Failed    == result \in {"False", "raised"}

\* the paths of the output directory that hold a PNG file / any file
PngFiles     == {p \in Paths : files[p].kind = "png"}
PresentFiles == {p \in Paths : files[p].kind # "none"}

\* the filenames the entries of the running script's table derive
DerivedNames == {Filename(script, Table(script)[k].name) : k \in 1..Len(Table(script))}

\* s without its first occurrence of piece (s itself when there is none)
WithoutFirst(s, piece) ==
    LET at == {i \in 1..(Len(s) - Len(piece) + 1) : SubSeq(s, i, i + Len(piece) - 1) = piece}
    IN  IF at = {} THEN s
        ELSE LET i == CHOOSE i \in at : \A j \in at : i <= j
             IN  SubSeq(s, 1, i - 1) \o SubSeq(s, i + Len(piece), Len(s))

\* the entries 1..m that derive path p, and the last of them
WritersOf(p, m) == {j \in 1..m : Filename(script, Table(script)[j].name) = p}
LastOf(ws) == CHOOSE j \in ws : \A i \in ws : i <= j

\* the output directory once exactly the entries 1..m have been written
DirAfter(m) ==
    [p \in Paths |->
        IF WritersOf(p, m) = {} THEN fs0.files[p]
        ELSE Png(EntryImage(LastOf(WritersOf(p, m))), LastOf(WritersOf(p, m)))]

----------------------------------------------------------------------------
(* C1 *)

\* C1 as stated: a run of either script that completes without failure,
\* started on an empty output directory, leaves exactly 19 PNG files, one
\* distinct file per entry of the size table, none missing and none extra.
C1_NineteenFiles ==
    (pc = "exited" /\ Succeeded /\ fs0.files = EmptyDir) =>
        /\ Len(Table(script)) = 19
        /\ Cardinality(PngFiles) = 19
        /\ \A j, k \in 1..Len(Table(script)) :
              j # k => Filename(script, Table(script)[j].name)
                       # Filename(script, Table(script)[k].name)
        /\ PresentFiles = DerivedNames

\* C1 amended: such a run leaves exactly 15 PNG files, one per distinct
\* derived filename of the 18 entries of the size table, none missing and
\* none extra.
C1_FifteenFiles ==
    (pc = "exited" /\ Succeeded /\ fs0.files = EmptyDir) =>
        /\ Len(Table(script)) = 18
        /\ Cardinality(PngFiles) = 15
        /\ PngFiles = DerivedNames
        /\ PresentFiles = PngFiles

\* a renderer run that completed on an empty directory
C1_Witness ==
    /\ script = "renderer" /\ pc = "exited" /\ result = "list"
    /\ fs0.files = EmptyDir
    /\ Len(generated_files) = Len(ICON_SIZES)

----------------------------------------------------------------------------
(* C2 *)

\* C2: in both scripts, for every label processed, a label containing
\* 'iphone' derives 'icon-' + (label without 'iphone-') + '.png', a label
\* containing 'ipad' derives 'icon-' + (label without 'ipad-') + '.png',
\* the marketing label derives 'icon-1024x1024.png', and 'iphone-60pt@2x'
\* derives 'icon-60pt@2x.png'; the two scripts derive the same name.
C2_FilenameDerivation ==
    \A n \in 1..Len(generated_files) :
        LET icon_name == generated_files[n][1]
            filename  == generated_files[n][2]
        IN  /\ StrContains(icon_name, "iphone") =>
                  filename = "icon-" \o WithoutFirst(icon_name, "iphone-") \o ".png"
            /\ StrContains(icon_name, "ipad") =>
                  filename = "icon-" \o WithoutFirst(icon_name, "ipad-") \o ".png"
            /\ icon_name = "ios-marketing-1024pt@1x" => filename = "icon-1024x1024.png"
            /\ icon_name = "iphone-60pt@2x" => filename = "icon-60pt@2x.png"
            /\ filename = RendererFilename(icon_name)
            /\ filename = ResizerFilename(icon_name)

\* a resizer run that has derived the filename of every entry
C2_Witness ==
    /\ script = "resizer"
    /\ Len(generated_files) = Len(RESIZER_ICON_SIZES)
    /\ generated_files[1] = <<"iphone-60pt@2x", "icon-60pt@2x.png", 120>>
    /\ generated_files[Len(generated_files)][2] = "icon-1024x1024.png"

----------------------------------------------------------------------------
(* C3 *)

----------------------------------------------------------------------------
(* C5 *)

----------------------------------------------------------------------------
(* C6 *)

----------------------------------------------------------------------------
(* C7 *)

\* C7: a run in which icon generation fails ends by printing an error and
\* by signalling unsuccessful completion to the caller of the process: its
\* exit status differs from the exit status of a successful run.
C7_FailureSignalled ==
    (pc = "exited" /\ Failed) =>
        /\ \E n \in 1..Len(stdout) :
              stdout[n] \in {"Error: Source image not found",
                             "Error processing image", "Error generating icons"}
        /\ exitCode # 0

----------------------------------------------------------------------------
(* C8 *)

\* C8: for every source mode that carries an alpha channel, the image the
\* resizer resizes is a three-channel RGB image in which every fully
\* transparent source pixel is white.
C8_TransparentBecomesWhite ==
    (script = "resizer" /\ srcState = "ok" /\ srcFile.mode \in AlphaModes
        /\ pc \in {"makedirs", "loop", "save", "main", "exited"}) =>
        /\ source_img.mode = "RGB"
        /\ Len(source_img.pixel) = 3
        /\ Alpha(srcFile) = 0 => source_img.pixel = White

----------------------------------------------------------------------------
(* C4 *)

\* C4 as stated: for any requested size S >= 1 the badge radius, the plus
\* thickness and every glyph coordinate are non-negative integers within
\* the canvas range 0..S.
C4_GlyphsWithinCanvas ==
    \A icon \in gicon :
        gsize >= 1 => \A v \in GlyphNumbers(icon) : v \in Nat /\ v <= gsize

\* C4 amended: the same for any requested size S >= 3.
C4_GlyphsWithinCanvasFrom3 ==
    \A icon \in gicon :
        gsize >= 3 => \A v \in GlyphNumbers(icon) : v \in Nat /\ v <= gsize

\* the icon of size 3, whose plus sign is as thick as the canvas is wide
C4_Witness ==
    /\ gsize = 3
    /\ \E icon \in gicon : icon.plus_thickness = 3 /\ icon.plus_v[3] = 2

----------------------------------------------------------------------------
(* C9 *)

Stop1 == <<26, 77, 153>>
Stop2 == <<0, 128, 204>>

Close(c, d) == \A k \in 1..3 : Abs(c[k] - d[k]) <= 1

\* C9: the colour computed for ratio 0 is the first stop; for a ratio
\* below 0.33 every channel is within (1 - ratio / 0.33) of the span
\* between the first two stops, plus 1, of the second stop, so the colour
\* approaches the second stop as the ratio approaches 0.33; and at the
\* ratios 0.33 and 0.66 the colour of the segment that ends there and the
\* colour of the segment that starts there differ by at most 1 per channel.
C9_GradientContinuity ==
    gi > 0 =>
        LET i == ratio[1]
            n == ratio[2]
        IN  /\ i = 0 => color = Stop1
            /\ 100 * i < 33 * n =>
                  \A k \in 1..3 :
                      Abs(color[k] - Stop2[k]) * 33 * n
                        <= Abs(Stop2[k] - Stop1[k]) * (33 * n - 100 * i) + 33 * n
            /\ 100 * i = 33 * n => \A c \in Segment1(i, n) : Close(c, color)
            /\ 100 * i = 66 * n => \A c \in Segment2(i, n) : Close(c, color)

\* the loop of 50 circles has computed the colour of ratio 33/50 = 0.66,
\* which the second segment may end one below in a channel
C9_Witness ==
    /\ steps = 50 /\ ratio = <<33, 50>> /\ gi = 34
    /\ color = <<51, 179, 230>>
    /\ \E c \in Segment2(33, 50) : c # color

----------------------------------------------------------------------------
(* C10 *)

\* C10: for every size of the size table the bars of the plus sign are
\* strictly longer than they are thick.
C10_PlusBarsLongerThanThick ==
    \A icon \in gicon :
        gsize \in TableSizes => icon.plus_length > icon.plus_thickness

=============================================================================
